---- MODULE Spec2Model ----
(***************************************************************************)
(* ydns-py: the update run of src/ydns_py/__init__.py.                     *)
(*                                                                         *)
(* main() loads the configuration, then walks the [[domains]] entries in   *)
(* order; for each entry it calls _update() through the IPv4 opener for    *)
(* update_url and through the IPv6 opener for update_url_v6, folds the     *)
(* results into any_http_error / any_conn_error and finally picks the      *)
(* exit status.  The network (resolver answer, proxy, how far the          *)
(* exchange gets, HTTP status) is the environment: every attempt draws it  *)
(* anew.                                                                   *)
(***************************************************************************)
EXTENDS Integers, Sequences, FiniteSets, TLC

\* Bounds of the model.
MaxRecords == 2
MaxAddrs == 2

\* Exit statuses.
EX_SUCCESS == 0
EX_CONFIG_NOT_FOUND == 1
EX_CONFIG_PARSE_ERROR == 2
EX_NO_DOMAINS == 3
EX_UPDATE_FAILED == 4
EX_CONNECTION_ERROR == 5
\* An exception that leaves main() ends the interpreter with status 1
\* and a traceback on the error stream.
EX_UNCAUGHT == 1
\* The process has not exited yet.
NoExit == -1

(***************************************************************************)
(* Values of an entry's update_url / update_url_v6.                        *)
(*   NoUrl  the key is missing or its value is empty: entry.get() gives a  *)
(*          falsy value, which `if update_url:` skips                      *)
(*   Https  an https:// URL                                                *)
(*   Http   an http:// URL                                                 *)
(*   Bad    a value urllib.request.Request() rejects with ValueError       *)
(*          ("unknown url type"): a URL without a scheme                   *)
(***************************************************************************)
NoUrl == "NoUrl"
Https == "https"
Http  == "http"
Bad   == "bad"
UrlValues == {NoUrl, Https, Http, Bad}

Entries == [update_url : UrlValues, update_url_v6 : UrlValues]

\* The lists of [[domains]] entries a configuration file can hold.
DomainLists == UNION {[1..n -> Entries] : n \in 0..MaxRecords}

\* Address families.
AF_INET   == "AF_INET"
AF_INET6  == "AF_INET6"
AF_UNSPEC == "AF_UNSPEC"
HostFamilies == {AF_INET, AF_INET6}

\* What the resolver knows of a host: its addresses, in the resolver's order.
DnsAnswers == UNION {[1..n -> HostFamilies] : n \in 0..MaxAddrs}

\* HTTP statuses of a final response.
Statuses == {200, 299, 300, 400, 404, 500}

\* _Result
OK == "OK"
HTTP_ERROR == "HTTP_ERROR"
CONN_ERROR == "CONN_ERROR"

(***************************************************************************)
(* The resolver.  socket.getaddrinfo(host, port, family, SOCK_STREAM)      *)
(* gives the host's addresses of `family` (all of them for AF_UNSPEC), in  *)
(* the resolver's order; an address is (af, sa), sa its place in the       *)
(* host's answer.                                                          *)
(***************************************************************************)
HostAddrs(dns) == [k \in 1..Len(dns) |-> [af |-> dns[k], sa |-> k]]

getaddrinfo(dns, family) ==
    LET Wanted(a) == family = AF_UNSPEC \/ a.af = family
    IN  SelectSeq(HostAddrs(dns), Wanted)

\* How far an exchange gets: the step that fails, or "none".  The tunnel
\* handshake fails when the proxy answers CONNECT with another status than
\* 200 ("refused") or when the exchange with the proxy breaks ("tunnel").
Faults == {"connect", "refused", "tunnel", "tls", "read"}

\* The result of a connect that never got a socket.
NoSocket(error, events) ==
    [ok |-> FALSE, error |-> error, events |-> events, af |-> "none", sa |-> 0,
     closed |-> FALSE, self_sock |-> "none", server_hostname |-> "none"]

(***************************************************************************)
(* connect with one slip in it, for the mutants below: "sni" gives TLS the *)
(* name in self.host when tunneled (the proxy's), "retry" dials the second *)
(* resolved address when the first refuses, "leak" leaves out the close    *)
(* after a failed sock.connect.                                            *)
(***************************************************************************)
connect_with_slip(address_family, tunnel_host, dns, fault, slip) ==
    LET infos == getaddrinfo(dns, address_family)
    IN  IF infos = <<>>
        THEN NoSocket("getaddrinfo", <<"getaddrinfo">>)
        ELSE
        LET again == slip = "retry" /\ fault = "connect" /\ Len(infos) > 1
            pick == IF again THEN 2 ELSE 1
            met == IF again THEN "none" ELSE fault
            dial == IF again
                    THEN <<"getaddrinfo", "socket", "connect", "close",
                           "socket", "connect">>
                    ELSE <<"getaddrinfo", "socket", "connect">>
            name == IF slip = "sni" THEN "host" ELSE "tunnel_host"
            sock == [ok |-> FALSE, error |-> "none", events |-> dial,
                     af |-> infos[pick].af, sa |-> infos[pick].sa,
                     closed |-> FALSE, self_sock |-> "none",
                     server_hostname |-> "none"]
        IN  IF met = "connect"
            THEN IF slip = "leak"
                 THEN [sock EXCEPT !.error = "connect"]
                 ELSE [sock EXCEPT !.error = "connect",
                                   !.events = Append(dial, "close"),
                                   !.closed = TRUE]
            ELSE IF tunnel_host
            THEN IF met = "refused"
                 THEN [sock EXCEPT !.error = "refused",
                                   !.events = Append(dial, "_tunnel"),
                                   !.closed = TRUE]
                 ELSE IF met = "tunnel"
                 THEN [sock EXCEPT !.error = "tunnel",
                                   !.events = Append(dial, "_tunnel"),
                                   !.self_sock = "plain"]
                 ELSE IF met = "tls"
                 THEN [sock EXCEPT !.error = "tls",
                                   !.events = dial \o <<"_tunnel", "wrap_socket">>,
                                   !.closed = TRUE,
                                   !.self_sock = "plain",
                                   !.server_hostname = name]
                 ELSE [sock EXCEPT !.ok = TRUE,
                                   !.events = dial \o <<"_tunnel", "wrap_socket">>,
                                   !.self_sock = "tls",
                                   !.server_hostname = name]
            ELSE IF met = "tls"
                 THEN [sock EXCEPT !.error = "tls",
                                   !.events = Append(dial, "wrap_socket"),
                                   !.closed = TRUE,
                                   !.server_hostname = "host"]
                 ELSE [sock EXCEPT !.ok = TRUE,
                                   !.events = Append(dial, "wrap_socket"),
                                   !.self_sock = "tls",
                                   !.server_hostname = "host"]

\* Mutant of connect: when tunneled, wrap_socket gets server_hostname=self.host.
connect_sni_of_proxy(address_family, tunnel_host, dns, fault) ==
    connect_with_slip(address_family, tunnel_host, dns, fault, "sni")

\* Mutant of connect: a refused sock.connect is followed by one to infos[1].
connect_next_address(address_family, tunnel_host, dns, fault) ==
    connect_with_slip(address_family, tunnel_host, dns, fault, "retry")

\* Mutant of connect: no sock.close() when sock.connect raises.
connect_without_close(address_family, tunnel_host, dns, fault) ==
    connect_with_slip(address_family, tunnel_host, dns, fault, "leak")

(***************************************************************************)
(* _ForcedAFHTTPSConnection.connect.  address_family is the class's        *)
(* _address_family, tunnel_host whether self._tunnel_host is set.          *)
(* The result holds what the call did: the steps in order (events), the    *)
(* address the socket was connected to (af, sa), whether the socket is     *)
(* closed when the call ends, what self.sock holds ("none", the "plain"    *)
(* socket or the "tls" stream) and the name TLS was negotiated for.        *)
(* connect() closes the socket itself when sock.connect fails; _tunnel     *)
(* closes the connection when the proxy refuses and leaves it open when    *)
(* the exchange breaks; wrap_socket closes the socket it was given when    *)
(* the handshake fails.                                                    *)
(***************************************************************************)
connect(address_family, tunnel_host, dns, fault) ==
    LET infos == getaddrinfo(dns, address_family)
    IN  IF infos = <<>>
        THEN NoSocket("getaddrinfo", <<"getaddrinfo">>)
        ELSE
        LET af == infos[1].af
            sa == infos[1].sa
            dial == <<"getaddrinfo", "socket", "connect">>
            sock == [ok |-> FALSE, error |-> "none", events |-> dial,
                     af |-> af, sa |-> sa, closed |-> FALSE,
                     self_sock |-> "none", server_hostname |-> "none"]
        IN  IF fault = "connect"
            THEN [sock EXCEPT !.error = "connect",
                              !.events = Append(dial, "close"),
                              !.closed = TRUE]
            ELSE IF tunnel_host
            THEN IF fault = "refused"
                 THEN [sock EXCEPT !.error = "refused",
                                   !.events = Append(dial, "_tunnel"),
                                   !.closed = TRUE]
                 ELSE IF fault = "tunnel"
                 THEN [sock EXCEPT !.error = "tunnel",
                                   !.events = Append(dial, "_tunnel"),
                                   !.self_sock = "plain"]
                 ELSE IF fault = "tls"
                 THEN [sock EXCEPT !.error = "tls",
                                   !.events = dial \o <<"_tunnel", "wrap_socket">>,
                                   !.closed = TRUE,
                                   !.self_sock = "plain",
                                   !.server_hostname = "tunnel_host"]
                 ELSE [sock EXCEPT !.ok = TRUE,
                                   !.events = dial \o <<"_tunnel", "wrap_socket">>,
                                   !.self_sock = "tls",
                                   !.server_hostname = "tunnel_host"]
            ELSE IF fault = "tls"
                 THEN [sock EXCEPT !.error = "tls",
                                   !.events = Append(dial, "wrap_socket"),
                                   !.closed = TRUE,
                                   !.server_hostname = "host"]
                 ELSE [sock EXCEPT !.ok = TRUE,
                                   !.events = Append(dial, "wrap_socket"),
                                   !.self_sock = "tls",
                                   !.server_hostname = "host"]

\* Mutant of IPv6HTTPSConnection: the class keeps the base class's
\* _address_family, AF_UNSPEC.
IPv6HTTPSConnection_unpinned == AF_UNSPEC

\* _IPv4HTTPSConnection / _IPv6HTTPSConnection: the family each class pins.
IPv4HTTPSConnection == AF_INET
IPv6HTTPSConnection == AF_INET6

\* _make_opener(ipv6): the opener is known by the connection class its
\* HTTPS handler opens connections with.
make_opener(ipv6) == IF ipv6 THEN IPv6HTTPSConnection ELSE IPv4HTTPSConnection

(***************************************************************************)
(* The connection of the opener's stock HTTPHandler, which build_opener    *)
(* keeps for http:// URLs: http.client.HTTPConnection dials through        *)
(* socket.create_connection, which resolves the host in any family and     *)
(* takes the first address that accepts.  No TLS.                          *)
(***************************************************************************)
plain_connect(dns, fault) ==
    LET infos == getaddrinfo(dns, AF_UNSPEC)
    IN  IF infos = <<>>
        THEN NoSocket("getaddrinfo", <<"getaddrinfo">>)
        ELSE [ok |-> fault # "connect",
              error |-> IF fault = "connect" THEN "connect" ELSE "none",
              events |-> IF fault = "connect"
                         THEN <<"getaddrinfo", "socket", "connect", "close">>
                         ELSE <<"getaddrinfo", "socket", "connect">>,
              af |-> IF fault = "connect" THEN "none" ELSE infos[1].af,
              sa |-> IF fault = "connect" THEN 0 ELSE infos[1].sa,
              closed |-> fault = "connect",
              self_sock |-> IF fault = "connect" THEN "none" ELSE "plain",
              server_hostname |-> "none"]

(***************************************************************************)
(* The cleanup of the HTTP layer when the request raises: do_open, which   *)
(* https_open calls, runs h.close() on any exception, and h.close() closes *)
(* the socket self.sock holds.                                             *)
(***************************************************************************)
h_close(c) ==
    IF c.self_sock = "none" THEN c
    ELSE [c EXCEPT !.closed = TRUE, !.self_sock = "none"]

(***************************************************************************)
(* opener.open(req, timeout=TIMEOUT) for a request urllib accepted.  The   *)
(* opener built by _make_opener sends https:// through its pinned          *)
(* connection class and http:// through the stock handler.  exc is what    *)
(* the call raises: "none" (a response with a 2xx status), "HTTPError"     *)
(* (a response with another status; the status is e.code) or "URLError"    *)
(* (no response: any other Exception).                                     *)
(***************************************************************************)
opener_open(opener, url, net) ==
    LET c == IF url = Https
             THEN connect(opener, net.tunnel_host, net.dns, net.fault)
             ELSE plain_connect(net.dns, net.fault)
    IN  IF ~c.ok \/ net.fault = "read"
        THEN [exc |-> "URLError", status |-> 0, conn |-> c]
        ELSE IF net.status >= 200 /\ net.status < 300
        THEN [exc |-> "none", status |-> net.status, conn |-> c]
        ELSE [exc |-> "HTTPError", status |-> net.status, conn |-> c]

\* No network: the attempt never reaches it.
NoNet == [dns |-> <<>>, tunnel_host |-> FALSE, fault |-> "none", status |-> 0]

\* The networks an attempt on `url` can meet.
Nets(url) ==
    IF url = Bad THEN {NoNet} ELSE
    LET tunnels == IF url = Https THEN BOOLEAN ELSE {FALSE}
        faults(t) == IF url = Https
                     THEN IF t THEN Faults ELSE Faults \ {"refused", "tunnel"}
                     ELSE {"connect", "read"}
    IN  UNION {
          UNION {
            {[dns |-> d, tunnel_host |-> t, fault |-> f, status |-> 0]
                : f \in faults(t)}
            \cup
            {[dns |-> d, tunnel_host |-> t, fault |-> "none", status |-> s]
                : s \in Statuses}
            : t \in tunnels}
          : d \in DnsAnswers}

(***************************************************************************)
(* What an attempt through `opener` on `url` can get from opener.open:     *)
(* the outcomes of opener_open over every network, as main sees them.      *)
(* A value urllib rejects never reaches opener.open.                       *)
(***************************************************************************)
NoResponse == [exc |-> "none", status |-> 0]

ResponseTable ==
    [opener \in {IPv4HTTPSConnection, IPv6HTTPSConnection}, url \in {Https, Http} |->
        {[exc |-> opener_open(opener, url, n).exc,
          status |-> opener_open(opener, url, n).status] : n \in Nets(url)}]

Responses(opener, url) ==
    IF url = Bad THEN {NoResponse} ELSE ResponseTable[opener, url]

\* Mutant of classify: the 404 message is printed without file=sys.stderr.
classify_404_on_stdout(status, verbose_) ==
    IF status >= 200 /\ status < 300
    THEN [result |-> OK,
          out |-> IF verbose_ THEN "updated" ELSE "none", err |-> "none"]
    ELSE IF status = 404
    THEN [result |-> HTTP_ERROR, out |-> "invalid (404)", err |-> "none"]
    ELSE IF status = 400
    THEN [result |-> HTTP_ERROR, out |-> "none", err |-> "rejected (400)"]
    ELSE [result |-> HTTP_ERROR, out |-> "none", err |-> "unexpected status"]

(***************************************************************************)
(* _update, after the response: what the status is classified as and what  *)
(* is printed (out: the line on standard output, err: the line on the      *)
(* error stream, "none" when nothing is printed).                          *)
(***************************************************************************)
classify(status, verbose_) ==
    IF status >= 200 /\ status < 300
    THEN [result |-> OK,
          out |-> IF verbose_ THEN "updated" ELSE "none", err |-> "none"]
    ELSE IF status = 404
    THEN [result |-> HTTP_ERROR, out |-> "none", err |-> "invalid (404)"]
    ELSE IF status = 400
    THEN [result |-> HTTP_ERROR, out |-> "none", err |-> "rejected (400)"]
    ELSE [result |-> HTTP_ERROR, out |-> "none", err |-> "unexpected status"]

\* Mutant of update: without the `except urllib.error.HTTPError` clause an
\* error response falls to `except Exception`.
update_without_HTTPError_clause(url, verbose_, r) ==
    IF url = Bad
    THEN [raised |-> TRUE, result |-> "none", exc |-> "ValueError",
          status |-> 0, out |-> "none", err |-> "traceback"]
    ELSE IF r.exc = "none"
    THEN [raised |-> FALSE, result |-> OK, exc |-> r.exc,
          status |-> r.status,
          out |-> IF verbose_ THEN "updated" ELSE "none", err |-> "none"]
    ELSE [raised |-> FALSE, result |-> CONN_ERROR, exc |-> r.exc,
          status |-> 0, out |-> "none", err |-> "connection error"]

(***************************************************************************)
(* _update(opener, url, domain, label, verbose), r being what              *)
(* opener.open does.  The Request is built before the try: a value urllib  *)
(* rejects raises ValueError out of _update (raised), which the            *)
(* interpreter reports as a traceback.  Inside the try, HTTPError yields   *)
(* its code as the status and any other Exception a connection error.      *)
(***************************************************************************)
update(url, verbose_, r) ==
    IF url = Bad
    THEN [raised |-> TRUE, result |-> "none", exc |-> "ValueError",
          status |-> 0, out |-> "none", err |-> "traceback"]
    ELSE IF r.exc \in {"none", "HTTPError"}
    THEN LET c == classify(r.status, verbose_)
         IN  [raised |-> FALSE, result |-> c.result, exc |-> r.exc,
              status |-> r.status, out |-> c.out, err |-> c.err]
    ELSE [raised |-> FALSE, result |-> CONN_ERROR, exc |-> r.exc,
          status |-> 0, out |-> "none", err |-> "connection error"]

\* `if update_url:` / `if update_url_v6:`
present(url) == url # NoUrl

\* Mutant of no_urls: `or` for `and`.
no_urls_either(e) == ~present(e.update_url) \/ ~present(e.update_url_v6)

\* `if not update_url and not update_url_v6:`
no_urls(e) == ~present(e.update_url) /\ ~present(e.update_url_v6)

\* Mutant of http_error_after: the flag is assigned the comparison.
http_error_assigned(flag, result) == result = HTTP_ERROR

\* main's bookkeeping of a result: the two flags afterwards.
http_error_after(flag, result) == flag \/ result = HTTP_ERROR

conn_error_after(flag, result) ==
    IF result = HTTP_ERROR THEN flag ELSE flag \/ result = CONN_ERROR

\* Mutant of exit_status: the strict test comes first.
exit_status_strict_first(strict_, http_error, conn_error) ==
    IF strict_ /\ http_error THEN EX_UPDATE_FAILED
    ELSE IF conn_error THEN EX_CONNECTION_ERROR
    ELSE EX_SUCCESS

\* The end of main: the exit status.
exit_status(strict_, http_error, conn_error) ==
    IF conn_error THEN EX_CONNECTION_ERROR
    ELSE IF strict_ /\ http_error THEN EX_UPDATE_FAILED
    ELSE EX_SUCCESS

(***************************************************************************)
(* The state.                                                              *)
(*   config, domains, verbose, strict   the run's inputs                   *)
(*   pc, entry       where main is: "config", then per entry "ipv4",       *)
(*                   "ipv6", "warn", then "exit", at last "done"           *)
(*   any_http_error, any_conn_error   main's flags                         *)
(*   stdout          the lines written to standard output so far           *)
(*   stderr          the lines written to the error stream so far, counted *)
(*                   per kind of message                                   *)
(*   exit_code       the process's exit status, NoExit while it runs       *)
(*   attempts        the calls of _update so far                           *)
(*   tally           the results _update has returned so far               *)
(*   last            the latest call of _update: its label, opener and     *)
(*                   URL, what opener.open did and what _update made of it *)
(*   wire            the network the latest call met and the connection    *)
(*                   made on it (UpdateSpec; Spec sees the network only    *)
(*                   through what opener.open does)                        *)
(***************************************************************************)
VARIABLES config, domains, verbose, strict, pc, entry,
          any_http_error, any_conn_error, stdout, stderr, exit_code,
          attempts, tally, last, wire

vars == <<config, domains, verbose, strict, pc, entry,
          any_http_error, any_conn_error, stdout, stderr, exit_code,
          attempts, tally, last, wire>>

inputs == <<config, domains, verbose, strict>>

NoAttempt ==
    [label |-> "none", opener |-> "none", url |-> NoUrl, raised |-> FALSE, result |-> "none",
     exc |-> "none", status |-> 0, out |-> "none", err |-> "none"]

NoWire == [net |-> NoNet, conn |-> NoSocket("none", <<>>)]

\* The kinds of message on the error stream: an HTTP rejection, a
\* connection error, the warning for an entry without URLs, a fatal
\* configuration error, the traceback of an uncaught exception.
NoLines == [http |-> 0, conn |-> 0, warn |-> 0, fatal |-> 0, traceback |-> 0]

kind_of(err) ==
    IF err = "traceback" THEN "traceback"
    ELSE IF err = "connection error" THEN "conn"
    ELSE "http"

Started ==
    /\ verbose \in BOOLEAN
    /\ strict \in BOOLEAN
    /\ entry = 0
    /\ any_http_error = FALSE
    /\ any_conn_error = FALSE
    /\ stdout = 0
    /\ stderr = NoLines
    /\ exit_code = NoExit
    /\ attempts = 0
    /\ tally = [ok |-> 0, http |-> 0, conn |-> 0]
    /\ last = NoAttempt

Init ==
    /\ config \in {"not found", "unparsable", "loaded"}
    /\ domains \in IF config = "loaded" THEN DomainLists ELSE {<<>>}
    /\ pc = "config"
    /\ wire = NoWire
    /\ Started

\* sys.exit(code) after one line on the error stream.
Die(code) ==
    /\ stderr' = [stderr EXCEPT !.fatal = @ + 1]
    /\ exit_code' = code
    /\ pc' = "done"

\* main up to the loop: a missing, unreadable or empty configuration is
\* fatal.
LoadConfig ==
    /\ pc = "config"
    /\ IF config = "not found" THEN Die(EX_CONFIG_NOT_FOUND) /\ entry' = entry
       ELSE IF config = "unparsable" THEN Die(EX_CONFIG_PARSE_ERROR) /\ entry' = entry
       ELSE IF domains = <<>> THEN Die(EX_NO_DOMAINS) /\ entry' = entry
       ELSE /\ pc' = "ipv4"
            /\ entry' = 1
            /\ UNCHANGED <<stderr, exit_code>>
    /\ UNCHANGED <<inputs, any_http_error, any_conn_error, stdout,
                   attempts, tally, last, wire>>

\* What a call of _update leaves behind: the streams, the counts and, when
\* it returns, main's bookkeeping of the result; an exception out of
\* _update ends the process.
Returned(label, opener, url, u, next_pc) ==
    /\ attempts' = attempts + 1
    /\ last' = [label |-> label, opener |-> opener, url |-> url, raised |-> u.raised,
                result |-> u.result, exc |-> u.exc, status |-> u.status,
                out |-> u.out, err |-> u.err]
    /\ stdout' = IF u.out = "none" THEN stdout ELSE stdout + 1
    /\ stderr' = IF u.err = "none" THEN stderr
                 ELSE [stderr EXCEPT ![kind_of(u.err)] = @ + 1]
    /\ IF u.raised
       THEN /\ exit_code' = EX_UNCAUGHT
            /\ pc' = "done"
            /\ UNCHANGED <<any_http_error, any_conn_error, tally>>
       ELSE /\ any_http_error' = http_error_after(any_http_error, u.result)
            /\ any_conn_error' = conn_error_after(any_conn_error, u.result)
            /\ tally' = [ok |-> tally.ok + (IF u.result = OK THEN 1 ELSE 0),
                         http |-> tally.http + (IF u.result = HTTP_ERROR THEN 1 ELSE 0),
                         conn |-> tally.conn + (IF u.result = CONN_ERROR THEN 1 ELSE 0)]
            /\ exit_code' = exit_code
            /\ pc' = next_pc

\* A call of _update, the network seen through what opener.open does.
Attempt(label, opener, url, next_pc) ==
    \E r \in Responses(opener, url) :
        Returned(label, opener, url, update(url, verbose, r), next_pc)

\* A call of _update on a network n, the connection kept in wire.
WiredAttempt(label, opener, url, next_pc) ==
    \E n \in Nets(url) :
        LET o == opener_open(opener, url, n)
            r == [exc |-> o.exc, status |-> o.status]
        IN  /\ Returned(label, opener, url, update(url, verbose, r), next_pc)
            /\ wire' = [net |-> n,
                        conn |-> IF url = Bad THEN NoSocket("none", <<>>)
                                 ELSE o.conn]

Skip(next_pc) ==
    /\ pc' = next_pc
    /\ UNCHANGED <<any_http_error, any_conn_error, stdout, stderr,
                   exit_code, attempts, tally, last>>

\* Mutant of UpdateIPv4: the loop body's first part makes the IPv6 attempt.
UpdateIPv4_v6_first ==
    /\ pc = "ipv4"
    /\ LET update_url_v6 == domains[entry].update_url_v6
       IN  IF present(update_url_v6)
           THEN Attempt("IPv6", make_opener(TRUE), update_url_v6, "ipv6")
           ELSE Skip("ipv6")
    /\ UNCHANGED <<inputs, entry, wire>>

\* The loop body's first part: update_url through the IPv4 opener.
UpdateIPv4 ==
    /\ pc = "ipv4"
    /\ LET update_url == domains[entry].update_url
       IN  IF present(update_url)
           THEN Attempt("IPv4", make_opener(FALSE), update_url, "ipv6")
           ELSE Skip("ipv6")
    /\ UNCHANGED <<inputs, entry, wire>>

\* The loop body's second part: update_url_v6 through the IPv6 opener.
UpdateIPv6 ==
    /\ pc = "ipv6"
    /\ LET update_url_v6 == domains[entry].update_url_v6
       IN  IF present(update_url_v6)
           THEN Attempt("IPv6", make_opener(TRUE), update_url_v6, "warn")
           ELSE Skip("warn")
    /\ UNCHANGED <<inputs, entry, wire>>

\* The loop body's end: the warning for an entry without URLs, then the
\* next entry or the end of the loop.
EndEntry ==
    /\ pc = "warn"
    /\ stderr' = IF no_urls(domains[entry])
                 THEN [stderr EXCEPT !.warn = @ + 1]
                 ELSE stderr
    /\ IF entry < Len(domains)
       THEN entry' = entry + 1 /\ pc' = "ipv4"
       ELSE entry' = entry /\ pc' = "exit"
    /\ UNCHANGED <<inputs, any_http_error, any_conn_error, stdout,
                   exit_code, attempts, tally, last, wire>>

\* After the loop.
Exit ==
    /\ pc = "exit"
    /\ exit_code' = exit_status(strict, any_http_error, any_conn_error)
    /\ pc' = "done"
    /\ UNCHANGED <<inputs, entry, any_http_error, any_conn_error, stdout,
                   stderr, attempts, tally, last, wire>>

Next == LoadConfig \/ UpdateIPv4 \/ UpdateIPv6 \/ EndEntry \/ Exit

Spec == Init /\ [][Next]_vars

(***************************************************************************)
(* The run over a configuration of one entry, each attempt seen with the   *)
(* network it meets: the resolver's answer, the proxy, the step that       *)
(* fails, the status.                                                      *)
(***************************************************************************)
UpdateInit ==
    /\ config = "loaded"
    /\ domains \in [{1} -> Entries]
    /\ pc = "config"
    /\ wire = NoWire
    /\ Started

WiredUpdateIPv4 ==
    /\ pc = "ipv4"
    /\ LET update_url == domains[entry].update_url
       IN  IF present(update_url)
           THEN WiredAttempt("IPv4", make_opener(FALSE), update_url, "ipv6")
           ELSE Skip("ipv6") /\ wire' = wire
    /\ UNCHANGED <<inputs, entry>>

WiredUpdateIPv6 ==
    /\ pc = "ipv6"
    /\ LET update_url_v6 == domains[entry].update_url_v6
       IN  IF present(update_url_v6)
           THEN WiredAttempt("IPv6", make_opener(TRUE), update_url_v6, "warn")
           ELSE Skip("warn") /\ wire' = wire
    /\ UNCHANGED <<inputs, entry>>

UpdateNext ==
    LoadConfig \/ WiredUpdateIPv4 \/ WiredUpdateIPv6 \/ EndEntry \/ Exit

UpdateSpec == UpdateInit /\ [][UpdateNext]_vars

(***************************************************************************)
(* What the claims speak of.                                               *)
(***************************************************************************)

\* An entry with neither update_url nor update_url_v6.
NeitherUrl(e) == e.update_url = NoUrl /\ e.update_url_v6 = NoUrl

\* The URL fields with a value, over a list of entries.
RECURSIVE UrlFields(_)
UrlFields(ds) ==
    IF ds = <<>> THEN 0
    ELSE (IF Head(ds).update_url = NoUrl THEN 0 ELSE 1)
         + (IF Head(ds).update_url_v6 = NoUrl THEN 0 ELSE 1)
         + UrlFields(Tail(ds))

\* The run reached its update loop.
ReachedLoop == config = "loaded" /\ domains # <<>>

\* The run is over and its loop went through every entry.
LoopCompleted == pc = "done" /\ ReachedLoop /\ ~last.raised

\* The address family an attempt is labelled with.
FamilyOf(label) == IF label = "IPv6" THEN AF_INET6 ELSE AF_INET

\* The latest attempt got an HTTP response.
StatusObtained == wire.conn.ok /\ wire.net.fault # "read"

\* C1: at the end of a run that reached the update loop, the calls of
\* _update number the URL fields with a value over all entries: no attempt
\* is skipped and the run does not end early, whatever earlier attempts did.
C1_AllUrlFieldsAttempted ==
    (pc = "done" /\ ReachedLoop) => attempts = UrlFields(domains)

\* C2: once every entry is processed the exit status follows from the
\* results and strict alone: 5 if some attempt was a connection error, else
\* 4 if strict and some attempt was rejected, else 0.
C2_ExitStatusFromOutcomes ==
    LoopCompleted =>
        exit_code = IF tally.conn > 0 THEN EX_CONNECTION_ERROR
                    ELSE IF strict /\ tally.http > 0 THEN EX_UPDATE_FAILED
                    ELSE EX_SUCCESS

\* C2's case: a strict run with a rejection and a connection error ends 5.
C2_Witness ==
    /\ LoopCompleted
    /\ strict
    /\ tally.http > 0
    /\ tally.conn > 0
    /\ exit_code = EX_CONNECTION_ERROR

NoAddressInFamily ==
    \A k \in 1..Len(wire.net.dns) : wire.net.dns[k] # FamilyOf(last.label)

\* C4: when the host has no address in the family of the pinned transport,
\* no socket is connected in any family, the attempt is a connection error
\* and the run ends 5.
C4_NoFallbackToOtherFamily ==
    (attempts > 0 /\ last.url = Https /\ NoAddressInFamily) =>
        /\ ~wire.conn.ok
        /\ wire.conn.af = "none"
        /\ last.result = CONN_ERROR
        /\ any_conn_error
        /\ pc = "done" => exit_code = EX_CONNECTION_ERROR

\* C4's case: the host has addresses, all of the other family, and the run
\* ended 5.
C4_Witness ==
    /\ attempts > 0
    /\ last.url = Https
    /\ NoAddressInFamily
    /\ wire.net.dns # <<>>
    /\ last.result = CONN_ERROR
    /\ pc = "done"
    /\ exit_code = EX_CONNECTION_ERROR

\* C5: an attempt for update_url goes through the IPv4 opener and one for
\* update_url_v6 through the IPv6 opener, and whatever the URL, the socket
\* of the attempt is connected to an address of the attempt's family.
C5_ConnectedInOwnFamily ==
    attempts > 0 =>
        /\ last.opener = FamilyOf(last.label)
        /\ wire.conn.af \in {"none", FamilyOf(last.label)}

\* A step of main at an entry: without URLs it makes no attempt, records
\* no result and writes the warning at the entry's end only; with a URL it
\* writes no warning.
EntryStep ==
    pc \in {"ipv4", "ipv6", "warn"} =>
        IF NeitherUrl(domains[entry])
        THEN /\ attempts' = attempts
             /\ tally' = tally
             /\ any_http_error' = any_http_error
             /\ any_conn_error' = any_conn_error
             /\ stdout' = stdout
             /\ stderr' = IF pc = "warn"
                          THEN [stderr EXCEPT !.warn = stderr.warn + 1]
                          ELSE stderr
        ELSE (stderr.warn)' = stderr.warn

\* C6: while main is at an entry with neither URL it makes no attempt,
\* records no result, and writes the missing-URL warning once, at the end
\* of the entry; at an entry with a URL it writes no such warning.
C6_NoUrlsWarnedOnce == [][EntryStep]_vars

\* C6's case: a run over entries without URLs: a warning each, no attempt.
C6_Witness ==
    /\ LoopCompleted
    /\ Len(domains) = 2
    /\ \A j \in 1..Len(domains) : NeitherUrl(domains[j])
    /\ stderr.warn = 2
    /\ attempts = 0
    /\ tally = [ok |-> 0, http |-> 0, conn |-> 0]

\* Every failure has its one line on the error stream and standard output
\* holds the confirmations only.
StreamsInOrder ==
    /\ stderr.http = tally.http
    /\ stderr.conn = tally.conn
    /\ stdout = IF verbose THEN tally.ok ELSE 0
    /\ last.result \in {HTTP_ERROR, CONN_ERROR} =>
           last.out = "none" /\ last.err \notin {"none", "traceback"}
    /\ last.result = OK =>
           last.err = "none" /\ (last.out = "updated" <=> verbose)
    /\ (pc = "done" /\ ~ReachedLoop) =>
           stderr.fatal = 1 /\ stdout = 0 /\ attempts = 0

\* The run wrote nothing.
Silent == stdout = 0 /\ stderr = NoLines

\* C7 as stated: failures go to the error stream, one line per failed
\* attempt; standard output gets one confirmation per success when verbose
\* and nothing otherwise; so a non-verbose run whose attempts all succeed
\* writes nothing to either stream.
C7_StreamsAsStated ==
    /\ StreamsInOrder
    /\ (LoopCompleted /\ ~verbose /\ attempts > 0 /\ tally.ok = attempts)
           => Silent

\* C7 amended: as stated, the silent run being one whose attempts all
\* succeed and whose entries all have a URL.
C7_Streams ==
    /\ StreamsInOrder
    /\ (/\ LoopCompleted
        /\ ~verbose
        /\ attempts > 0
        /\ tally.ok = attempts
        /\ \A j \in 1..Len(domains) : ~NeitherUrl(domains[j]))
           => Silent

\* C7's case: a non-verbose run of several attempts, all successful, over
\* entries that all have a URL.
C7_Witness ==
    /\ LoopCompleted
    /\ ~verbose
    /\ attempts > 1
    /\ tally.ok = attempts
    /\ \A j \in 1..Len(domains) : ~NeitherUrl(domains[j])
    /\ Silent

\* C8: a configuration that is missing, unparsable or empty ends the run
\* with 1, 2 or 3 and without an attempt; a run that made an attempt ends
\* with 0, 4 or 5.
C8_ConfigErrorsFatal ==
    pc = "done" =>
        /\ config = "not found" =>
               exit_code = EX_CONFIG_NOT_FOUND /\ attempts = 0
        /\ config = "unparsable" =>
               exit_code = EX_CONFIG_PARSE_ERROR /\ attempts = 0
        /\ (config = "loaded" /\ domains = <<>>) =>
               exit_code = EX_NO_DOMAINS /\ attempts = 0
        /\ attempts > 0 =>
               exit_code \in {EX_SUCCESS, EX_UPDATE_FAILED, EX_CONNECTION_ERROR}

\* C9: every call of _update returns one of OK, HTTP_ERROR, CONN_ERROR:
\* none ends without a result.
C9_EveryAttemptReturns ==
    /\ attempts > 0 => ~last.raised /\ last.result \in {OK, HTTP_ERROR, CONN_ERROR}
    /\ attempts = tally.ok + tally.http + tally.conn

\* The flags say what the results so far were.
FlagsMatchResults ==
    /\ any_http_error <=> tally.http > 0
    /\ any_conn_error <=> tally.conn > 0
    /\ attempts = tally.ok + tally.http + tally.conn
                  + (IF last.raised THEN 1 ELSE 0)

\* A step clears no flag, sets at most one, and none on a success.
FlagStep ==
    /\ any_http_error => any_http_error'
    /\ any_conn_error => any_conn_error'
    /\ ~(any_http_error' # any_http_error /\ any_conn_error' # any_conn_error)
    /\ (tally.ok)' > tally.ok =>
           (any_http_error' = any_http_error /\ any_conn_error' = any_conn_error)

\* C10: at every point any_http_error holds exactly when some attempt so
\* far was rejected and any_conn_error exactly when some attempt so far was
\* a connection error; a step sets at most one of the flags, none when the
\* attempt succeeded, and never clears one.
C10_FlagsFollowResults == []FlagsMatchResults /\ [][FlagStep]_vars

\* C10's case: after a rejection and then a success, only any_http_error
\* is set.
C10_Witness ==
    /\ tally.http > 0
    /\ tally.ok > 0
    /\ tally.conn = 0
    /\ last.result = OK
    /\ any_http_error
    /\ ~any_conn_error

\* Where main is: before the loop, at a part of an entry's turn, after the
\* loop.
Place ==
    IF pc = "config" THEN 0
    ELSE IF pc = "ipv4" THEN 3 * entry
    ELSE IF pc = "ipv6" THEN 3 * entry + 1
    ELSE IF pc = "warn" THEN 3 * entry + 2
    ELSE IF pc = "exit" THEN 3 * Len(domains) + 3
    ELSE 3 * Len(domains) + 4

\* The URL fields with a value that lie before the place main is at.
FieldsBehind ==
    UrlFields(SubSeq(domains, 1, entry - 1))
    + (IF pc \in {"ipv6", "warn"} /\ domains[entry].update_url # NoUrl
       THEN 1 ELSE 0)
    + (IF pc = "warn" /\ domains[entry].update_url_v6 # NoUrl THEN 1 ELSE 0)

\* Inside the loop every attempt for a field behind is over and none for a
\* field ahead has begun.
AttemptsInOrder ==
    pc \in {"ipv4", "ipv6", "warn"} => attempts = FieldsBehind

\* A step moves main forward and makes at most one attempt: the one of the
\* place it leaves, IPv4 for update_url, IPv6 for update_url_v6, of the
\* current entry.
OrderStep ==
    /\ Place' > Place
    /\ entry' \in {entry, entry + 1}
    /\ entry' = entry + 1 => (pc \in {"config", "warn"} /\ attempts' = attempts)
    /\ attempts' \in {attempts, attempts + 1}
    /\ attempts' = attempts + 1 =>
           /\ pc \in {"ipv4", "ipv6"}
           /\ last'.label = (IF pc = "ipv4" THEN "IPv4" ELSE "IPv6")
           /\ last'.url = (IF pc = "ipv4" THEN domains[entry].update_url
                           ELSE domains[entry].update_url_v6)

\* C11: the attempts are made one at a time in a fixed order: entries in
\* the order of the configuration, within an entry the IPv4 attempt before
\* the IPv6 one, every attempt of an entry before any of the next.
C11_AttemptsSequential == []AttemptsInOrder /\ [][OrderStep]_vars

\* C11's case: in a run over two entries with all four URLs, the fourth
\* attempt is the second entry's IPv6 one.
C11_Witness ==
    /\ Len(domains) = 2
    /\ UrlFields(domains) = 4
    /\ entry = 2
    /\ pc = "warn"
    /\ attempts = 4
    /\ last.label = "IPv6"
    /\ last.url = domains[2].update_url_v6

\* The latest attempt went through the pinned HTTPS connection class.
PinnedAttempt == attempts > 0 /\ last.url = Https

\* The steps of a connect in their order, for a tunneled request or not.
StepsInOrder(tunneled) ==
    IF tunneled
    THEN <<"getaddrinfo", "socket", "connect", "_tunnel", "wrap_socket">>
    ELSE <<"getaddrinfo", "socket", "connect", "wrap_socket">>

\* The steps taken, the closing of the socket set aside.
StepsTaken ==
    LET IsStep(e) == e # "close" IN SelectSeq(wire.conn.events, IsStep)

\* The name of the host the request is for: self._tunnel_host when the
\* request is tunneled (self.host is then the proxy), else self.host.
TargetName == IF wire.net.tunnel_host THEN "tunnel_host" ELSE "host"

\* TLS negotiation was begun in the latest connect.
TlsBegun == \E k \in 1..Len(wire.conn.events) : wire.conn.events[k] = "wrap_socket"

\* The tunnel handshake was begun in the latest connect.
TunnelBegun == \E k \in 1..Len(wire.conn.events) : wire.conn.events[k] = "_tunnel"

\* C12: the steps of a connect are, in this order, the resolution in the
\* pinned family, the socket connect, the tunnel handshake if and only if
\* the request is tunneled, and TLS for the name of the target host; TLS is
\* begun only after the socket connect and the tunnel handshake succeeded,
\* and a request is exchanged only over the TLS stream.
C12_ConnectStepsInOrder ==
    PinnedAttempt =>
        /\ StepsTaken # <<>>
        /\ StepsTaken = SubSeq(StepsInOrder(wire.net.tunnel_host), 1, Len(StepsTaken))
        /\ TunnelBegun => wire.net.tunnel_host
        /\ TlsBegun =>
               /\ wire.net.fault \notin {"connect", "refused", "tunnel"}
               /\ wire.conn.af = FamilyOf(last.label)
               /\ wire.conn.server_hostname = TargetName
        /\ (wire.conn.ok \/ StatusObtained) =>
               /\ TlsBegun
               /\ wire.net.fault # "tls"
               /\ wire.conn.self_sock = "tls"
        /\ ~wire.conn.ok => last.result = CONN_ERROR

\* C12's case: a tunneled request that got its response: five steps, TLS
\* last and for the target's name.
C12_Witness ==
    /\ PinnedAttempt
    /\ wire.net.tunnel_host
    /\ StatusObtained
    /\ wire.conn.events = StepsInOrder(TRUE)
    /\ wire.conn.server_hostname = "tunnel_host"
    /\ last.result = OK

\* How many times the latest connect dialled an address.
RECURSIVE Dials(_)
Dials(events) ==
    IF events = <<>> THEN 0
    ELSE (IF Head(events) = "connect" THEN 1 ELSE 0) + Dials(Tail(events))

\* The places, in the resolver's answer, of the addresses of the family of
\* the latest attempt.
Candidates ==
    {k \in 1..Len(wire.net.dns) : wire.net.dns[k] = FamilyOf(last.label)}

\* C13: a connect dials at most once, and the address dialled is the first
\* of the attempt's family in the resolver's answer; when that connect
\* fails the call fails, whatever other addresses of the family there are.
C13_FirstAddressOnly ==
    PinnedAttempt =>
        /\ Dials(wire.conn.events) <= 1
        /\ Dials(wire.conn.events) = 1 <=> Candidates # {}
        /\ Candidates # {} =>
               /\ wire.conn.sa \in Candidates
               /\ \A k \in Candidates : wire.conn.sa <= k
        /\ (Candidates # {} /\ wire.net.fault = "connect") =>
               /\ ~wire.conn.ok
               /\ wire.conn.error = "connect"
               /\ last.result = CONN_ERROR

\* C13's case: the host has two addresses of the family, the first
\* refuses: one dial, a connection error.
C13_Witness ==
    /\ PinnedAttempt
    /\ Cardinality(Candidates) = 2
    /\ wire.net.fault = "connect"
    /\ Dials(wire.conn.events) = 1
    /\ wire.conn.sa = 1
    /\ ~wire.conn.ok
    /\ last.result = CONN_ERROR

\* The latest connect made a socket and failed.
FailedWithSocket ==
    /\ PinnedAttempt
    /\ ~wire.conn.ok
    /\ \E k \in 1..Len(wire.conn.events) : wire.conn.events[k] = "socket"

\* C14 as stated: whenever connect fails after it made the socket, the
\* socket is closed by the time connect raises.
C14_ClosedWhenConnectRaises ==
    FailedWithSocket => wire.conn.closed

\* C14 amended: when the socket connect fails, the proxy refuses the
\* tunnel or TLS negotiation fails, the socket is closed by the time
\* connect raises; when the exchange with the proxy breaks, connect raises
\* with the socket open in self.sock and the HTTP layer's cleanup closes
\* it; so the attempt, a connection error, leaves no open socket.
C14_NoSocketLeftOpen ==
    FailedWithSocket =>
        /\ wire.conn.error \in {"connect", "refused", "tunnel", "tls"}
        /\ wire.conn.error # "tunnel" => wire.conn.closed
        /\ wire.conn.error = "tunnel" =>
               ~wire.conn.closed /\ wire.conn.self_sock = "plain"
        /\ h_close(wire.conn).closed
        /\ last.result = CONN_ERROR

\* C14's case: the exchange with the proxy broke: connect raised with the
\* socket open, the cleanup closed it.
C14_Witness ==
    /\ FailedWithSocket
    /\ wire.net.tunnel_host
    /\ wire.conn.error = "tunnel"
    /\ ~wire.conn.closed
    /\ h_close(wire.conn).closed
    /\ last.result = CONN_ERROR

\* C15: a run never stops before its end, makes no more attempts than
\* there are URL fields with a value (none is retried), and a run that
\* reached the loop ends after its last entry with status 0, 4 or 5.
C15_EndsAfterWholeSequence ==
    /\ pc # "done" => ENABLED Next
    /\ attempts <= UrlFields(domains)
    /\ (pc = "done" /\ ReachedLoop) =>
           /\ entry = Len(domains)
           /\ ~last.raised
           /\ exit_code \in {EX_SUCCESS, EX_UPDATE_FAILED, EX_CONNECTION_ERROR}

\* The exit status that goes with a multiset of results and strict: the
\* one of the runs that return from every attempt.
StatusOf(results, strict_) ==
    IF results.conn > 0 THEN EX_CONNECTION_ERROR
    ELSE IF strict_ /\ results.http > 0 THEN EX_UPDATE_FAILED
    ELSE EX_SUCCESS

\* C16: the exit status of a run that reached the loop is one and the same
\* for all runs with the same multiset of results and the same strict,
\* whatever verbose and the order of the entries are: the status the runs
\* that return from every attempt end with.
C16_ExitStatusOfResultsAndStrict ==
    (pc = "done" /\ ReachedLoop) => exit_code = StatusOf(tally, strict)

====
